---- MODULE Spec2Model ----
(***************************************************************************)
(* Book-store catalog controllers (backend/controllers/bookController.js): *)
(* createBook, updateBookById, deleteBookById, getBookById, deleteAuthor,  *)
(* over the Book / Author / Category / Cart / Favorites / Order            *)
(* collections and the blob bucket.                                        *)
(*                                                                         *)
(* Requests are served one after the other.  The handlers that are one     *)
(* chain of awaits inside a try/catch (update, delete, get, deleteAuthor)  *)
(* are one action each, the await that rejects being an input of the       *)
(* action.  createBook returns before its write streams settle, so its     *)
(* stream events are separate actions.                                     *)
(***************************************************************************)
EXTENDS Integers, Sequences, FiniteSets, TLC

VARIABLES Book, Author, Category, Cart, Favorites, Order, blobs, nextId,
          call, res, streams, cb

vars == <<Book, Author, Category, Cart, Favorites, Order, blobs, nextId,
          call, res, streams, cb>>

----------------------------------------------------------------------------
(* Bounds *)

MaxBooks == 2

----------------------------------------------------------------------------
(* Values *)

BookIds == 1..MaxBooks

\* JavaScript's undefined and NaN among the numbers of a request body
Undefined == -1
NaN == -2

Prices == {20, 40}
Percents == {0, 50, 100}

AuthorIds == {"a1", "a2"}
AuthorNames == {"Ann", "Bob"}
NameOf(a) == IF a = "a1" THEN "Ann" ELSE "Bob"
CategoryTitles == {"c1", "c2"}
Users == {"u1", "u2"}
NoUser == "anonymous"

Slots == {"file", "cover", "sample"}
Folder(slot) ==
  CASE slot = "file" -> "books"
    [] slot = "cover" -> "covers"
    [] OTHER -> "samples"
Field(slot) ==
  CASE slot = "file" -> "sourcePath"
    [] slot = "cover" -> "coverImage"
    [] OTHER -> "samplePdf"

\* original file names, as sequences of characters
FileNames == {<<"a">>, <<"a", " ", " ", "b">>, <<"a", "_", "b">>}
NoFile == <<>>

----------------------------------------------------------------------------
(* Pure helpers *)

IsSpace(c) == c = " "

\* originalname.replace(/\s+/g, "_")
RECURSIVE Sanitize(_)
Sanitize(s) ==
  IF s = <<>> THEN <<>>
  ELSE IF IsSpace(Head(s))
       THEN IF Len(s) > 1 /\ IsSpace(s[2])
            THEN Sanitize(Tail(s))
            ELSE <<"_">> \o Sanitize(Tail(s))
       ELSE <<Head(s)>> \o Sanitize(Tail(s))

\* the URL getSignedUrl answers for bucket.file(folder/name)
SignedUrl(folder, name) ==
  <<"https:", "/", "/", "bucket", "/", folder, "/">> \o name \o <<"?", "sig">>

\* url.split("/").pop(): what follows the last "/"
LastSegment(s) ==
  LET at == {i \in 1..Len(s) : s[i] = "/"}
  IN IF at = {} THEN s
     ELSE SubSeq(s, (CHOOSE i \in at : \A j \in at : j <= i) + 1, Len(s))

\* x.split("?")[0]: what precedes the first "?"
BeforeQuery(s) ==
  LET at == {i \in 1..Len(s) : s[i] = "?"}
  IN IF at = {} THEN s
     ELSE SubSeq(s, 1, (CHOOSE i \in at : \A j \in at : i <= j) - 1)

\* x.trim(): from the first to the last character that is no white space
Trim(s) ==
  LET at == {i \in 1..Len(s) : ~IsSpace(s[i])}
  IN IF at = {} THEN <<>>
     ELSE SubSeq(s, CHOOSE i \in at : \A j \in at : i <= j,
                    CHOOSE i \in at : \A j \in at : j <= i)

\* sourcePath.split("/").pop().split("?")[0].trim()
PreviousFileName(url) == Trim(BeforeQuery(LastSegment(url)))

\* the bucket key bucket.file(`${folder}/${name}`) names
BlobKey(folder, name) == <<folder, name>>

\* the bucket key a Book's stored URL of a slot is deleted under
PreviousBlob(book, slot) == BlobKey(Folder(slot), PreviousFileName(book[Field(slot)]))

\* array.filter(b => b !== id)
RECURSIVE Without(_, _)
Without(s, id) ==
  IF s = <<>> THEN <<>>
  ELSE IF Head(s) = id THEN Without(Tail(s), id)
       ELSE <<Head(s)>> \o Without(Tail(s), id)

Range(s) == {s[i] : i \in 1..Len(s)}

\* x || y on numbers: undefined, NaN and 0 are falsy
OrElse(x, y) == IF x = Undefined \/ x = NaN \/ x = 0 THEN y ELSE x

\* price - price * (discountPercentage / 100), createBook
CreateDiscountedPrice(price, pct) ==
  IF pct = Undefined \/ pct = NaN \/ price = NaN THEN NaN
  ELSE price - (price * pct) \div 100

\* originalPrice - (originalPrice * (body.discountPercentage || book.discountPercentage)) / 100
UpdateDiscountedPrice(originalPrice, bodyPct, bookPct) ==
  LET pct == OrElse(bodyPct, bookPct)
  IN IF pct = Undefined \/ pct = NaN \/ originalPrice = NaN THEN NaN
     ELSE originalPrice - (originalPrice * pct) \div 100

----------------------------------------------------------------------------
(* State *)

NoCb == [price |-> 0, pct |-> 0, discountedPrice |-> 0, category |-> "",
         author |-> "", names |-> [s \in Slots |-> NoFile], newId |-> 0,
         deleted |-> {}]
Idle == [s \in Slots |-> "idle"]

Response(status, err) == [status |-> status, err |-> err, fields |-> {}]

\* res.status(..).json(..) and next(error): the caller gets the first one only
Respond(r) == IF res = <<>> THEN <<r>> ELSE res

Quiescent == \A s \in Slots : streams[s] # "open"

Init ==
  /\ Book = <<>>
  /\ Author = [a \in AuthorIds |-> [name |-> NameOf(a), books |-> <<>>, image |-> NoFile]]
  /\ Category = [c \in CategoryTitles |-> <<>>]
  /\ Cart = [u \in Users |-> {}]
  /\ Favorites = [u \in Users |-> {}]
  /\ Order = [u \in Users |-> {}]
  /\ blobs = {}
  /\ nextId = 1
  /\ call = [op |-> "none", id |-> 0, user |-> NoUser]
  /\ res = <<>>
  /\ streams = Idle
  /\ cb = NoCb

Shop == <<Cart, Favorites, Order>>

AuthorByName(name) == {a \in DOMAIN Author : Author[a].name = name}

----------------------------------------------------------------------------
(* createBook *)

\* the lookups of lines 143-151 moved behind the upload of the source file
CreateBookRejected_UploadThenLookup(body, files) ==
  /\ Quiescent
  /\ \/ /\ \E s \in Slots : files[s] = NoFile
        /\ res' = <<Response(500, "TypeError")>>
        /\ UNCHANGED blobs
     \/ /\ \A s \in Slots : files[s] # NoFile
        /\ AuthorByName(body.authorName) = {}
        /\ res' = <<Response(404, "Author not found")>>
        /\ blobs' = blobs \cup {BlobKey("books", Sanitize(files["file"]))}
     \/ /\ \A s \in Slots : files[s] # NoFile
        /\ AuthorByName(body.authorName) # {}
        /\ body.category \notin DOMAIN Category
        /\ res' = <<Response(404, "Category not found")>>
        /\ blobs' = blobs \cup {BlobKey("books", Sanitize(files["file"]))}
  /\ call' = [op |-> "createBook", id |-> 0, user |-> NoUser]
  /\ streams' = Idle
  /\ cb' = NoCb
  /\ UNCHANGED <<Book, Author, Category, Shop, nextId>>

\* lines 119-151: the request is answered before any stream is opened
CreateBookRejected(body, files) ==
  /\ Quiescent
  /\ \/ /\ \E s \in Slots : files[s] = NoFile
        /\ res' = <<Response(500, "TypeError")>>
     \/ /\ \A s \in Slots : files[s] # NoFile
        /\ AuthorByName(body.authorName) = {}
        /\ res' = <<Response(404, "Author not found")>>
     \/ /\ \A s \in Slots : files[s] # NoFile
        /\ AuthorByName(body.authorName) # {}
        /\ body.category \notin DOMAIN Category
        /\ res' = <<Response(404, "Category not found")>>
  /\ call' = [op |-> "createBook", id |-> 0, user |-> NoUser]
  /\ streams' = Idle
  /\ cb' = NoCb
  /\ UNCHANGED <<Book, Author, Category, Shop, blobs, nextId>>

\* lines 119-228: the three write streams are opened and the handlers registered
CreateBook(body, files) ==
  /\ Quiescent
  /\ nextId <= MaxBooks
  /\ \A s \in Slots : files[s] # NoFile
  /\ AuthorByName(body.authorName) # {}
  /\ body.category \in DOMAIN Category
  /\ call' = [op |-> "createBook", id |-> 0, user |-> NoUser]
  /\ res' = <<>>
  /\ streams' = [s \in Slots |-> "open"]
  /\ cb' = [price |-> body.price, pct |-> body.discountPercentage,
            discountedPrice |-> CreateDiscountedPrice(body.price, body.discountPercentage),
            category |-> body.category,
            author |-> CHOOSE a \in AuthorByName(body.authorName) : TRUE,
            names |-> [s \in Slots |-> Sanitize(files[s])],
            newId |-> 0,
            deleted |-> {}]
  /\ UNCHANGED <<Book, Author, Category, Shop, blobs, nextId>>

\* new Book({...}), lines 196-208
NewBook ==
  [price |-> cb.price,
   discountPercentage |-> OrElse(cb.pct, 0),
   originalPrice |-> cb.price,
   discountedPrice |-> cb.discountedPrice,
   category |-> cb.category,
   author |-> Author[cb.author].name,
   sourcePath |-> SignedUrl("books", cb.names["file"]),
   coverImage |-> SignedUrl("covers", cb.names["cover"]),
   samplePdf |-> SignedUrl("samples", cb.names["sample"])]

Put(f, k, v) == [x \in DOMAIN f \cup {k} |-> IF x = k THEN v ELSE f[x]]
Drop(f, k) == [x \in DOMAIN f \ {k} |-> f[x]]

HandlerFailures == {"none", "sign", "save", "category", "author"}

\* bookSchema: price, originalPrice and discountedPrice are Numbers, and casting
\* NaN to a Number makes save() reject
CastRejects(doc) == doc.price = NaN \/ doc.originalPrice = NaN \/ doc.discountedPrice = NaN

\* the await of the finish handler that rejects
Rejected(fail) == IF fail # "sign" /\ CastRejects(NewBook) THEN "save" ELSE fail

\* the awaits of the finish handler that have run when the one named `fail` rejects
Reached(fail, step) ==
  CASE step = "save" -> fail \in {"none", "category", "author"}
    [] step = "category" -> fail \in {"none", "author"}
    [] step = "author" -> fail = "none"
    [] OTHER -> FALSE

\* bookStream.on("finish", async () => {...}), lines 182-224
BookStreamFinish(fail) ==
  /\ call.op = "createBook"
  /\ streams["file"] = "open"
  /\ streams' = [streams EXCEPT !["file"] = "finish"]
  /\ blobs' = blobs \cup {BlobKey("books", cb.names["file"])}
  /\ IF Reached(Rejected(fail), "save")
     THEN /\ Book' = Put(Book, nextId, NewBook)
          /\ nextId' = nextId + 1
          /\ cb' = [cb EXCEPT !.newId = nextId]
     ELSE UNCHANGED <<Book, nextId, cb>>
  /\ Category' = IF Reached(Rejected(fail), "category")
                 THEN [Category EXCEPT ![cb.category] = Append(@, nextId)]
                 ELSE Category
  /\ Author' = IF Reached(Rejected(fail), "author") /\ cb.author \in DOMAIN Author
               THEN [Author EXCEPT ![cb.author].books = Append(@, nextId)]
               ELSE Author
  /\ res' = IF Rejected(fail) = "none" THEN Respond(Response(201, "none")) ELSE res
  /\ UNCHANGED <<Shop, call>>

\* coverStream / sampleStream finish: no handler is registered, the blob is stored
StreamFinish(s) ==
  /\ call.op = "createBook"
  /\ s \in {"cover", "sample"}
  /\ streams[s] = "open"
  /\ streams' = [streams EXCEPT ![s] = "finish"]
  /\ blobs' = blobs \cup {BlobKey(Folder(s), cb.names[s])}
  /\ UNCHANGED <<Book, Author, Category, Shop, nextId, call, res, cb>>

\* xStream.on("error", (error) => next(error)), lines 226-228
StreamError(s) ==
  /\ call.op = "createBook"
  /\ streams[s] = "open"
  /\ streams' = [streams EXCEPT ![s] = "error"]
  /\ res' = Respond(Response(500, "upload"))
  /\ UNCHANGED <<Book, Author, Category, Shop, blobs, nextId, call, cb>>

----------------------------------------------------------------------------
(* Other controllers: carts, favorites and orders *)

AddToCart(u, b) ==
  /\ Quiescent
  /\ b \in DOMAIN Book
  /\ b \notin Cart[u]
  /\ Cart' = [Cart EXCEPT ![u] = @ \cup {b}]
  /\ UNCHANGED <<Book, Author, Category, Favorites, Order, blobs, nextId,
                 call, res, streams, cb>>

AddFavorite(u, b) ==
  /\ Quiescent
  /\ b \in DOMAIN Book
  /\ b \notin Favorites[u]
  /\ Favorites' = [Favorites EXCEPT ![u] = @ \cup {b}]
  /\ UNCHANGED <<Book, Author, Category, Cart, Order, blobs, nextId,
                 call, res, streams, cb>>

PlaceOrder(u, b) ==
  /\ Quiescent
  /\ b \in DOMAIN Book
  /\ b \notin Order[u]
  /\ Order' = [Order EXCEPT ![u] = @ \cup {b}]
  /\ UNCHANGED <<Book, Author, Category, Cart, Favorites, blobs, nextId,
                 call, res, streams, cb>>

----------------------------------------------------------------------------
(* getBookById *)

AllFields == {"price", "discountPercentage", "originalPrice", "discountedPrice",
              "category", "author", "sourcePath", "coverImage", "samplePdf"}

HasOrderedBook_AnyUser(user, id) == \E u \in DOMAIN Order : id \in Order[u]

\* lines 91-103: some order of the requester holds the book
HasOrderedBook(user, id) == user \in DOMAIN Order /\ id \in Order[user]

\* lines 84-111: the fields of the answer
ResponseData(user, id) ==
  IF user = NoUser THEN AllFields \ {"sourcePath"}
  ELSE IF HasOrderedBook(user, id) THEN AllFields
       ELSE AllFields \ {"sourcePath"}

GetBookById(id, user) ==
  /\ Quiescent
  /\ call' = [op |-> "getBookById", id |-> id, user |-> user]
  /\ res' = IF id \notin DOMAIN Book
            THEN <<Response(404, "Book not found")>>
            ELSE <<[status |-> 200, err |-> "none", fields |-> ResponseData(user, id)]>>
  /\ streams' = Idle
  /\ cb' = NoCb
  /\ UNCHANGED <<Book, Author, Category, Shop, blobs, nextId>>

----------------------------------------------------------------------------
(* deleteBookById *)

DeleteSteps_RecordFirst == <<"category", "author", "cart", "favorites", "order",
                             "record", "file", "cover", "sample">>

\* the awaits of deleteBookById, lines 369-425, in order
DeleteSteps == <<"category", "author", "cart", "favorites", "order",
                 "file", "cover", "sample", "record">>

StepIndex(step) == CHOOSE i \in 1..Len(DeleteSteps) : DeleteSteps[i] = step

\* bucket.file(key).delete() rejects: the object is absent (404) or the store fails
DeleteRejects(store, key, fault) == key \notin store \/ fault

\* the first await of deleteBookById that rejects, "none" when all resolve;
\* `fault` is the await the environment makes fail
FirstRejected(book, fault) ==
  LET bad == {i \in 1..Len(DeleteSteps) :
                IF DeleteSteps[i] \in Slots
                THEN DeleteRejects(blobs, PreviousBlob(book, DeleteSteps[i]),
                                   DeleteSteps[i] = fault)
                ELSE DeleteSteps[i] = fault}
  IN IF bad = {} THEN "none"
     ELSE DeleteSteps[CHOOSE i \in bad : \A j \in bad : i <= j]

\* the await named `step` resolved before the handler stopped at `stop`
Resolved(step, stop) == stop = "none" \/ StepIndex(step) < StepIndex(stop)

DeleteErr(book, stop, fault) ==
  IF stop = "none" THEN "none"
  ELSE IF stop \in Slots /\ PreviousBlob(book, stop) \notin blobs THEN "blobAbsent"
  ELSE IF stop \in Slots THEN "blobIO"
  ELSE "persist"

Pull_Nothing(lists, id) == lists

\* updateMany({..bookId: id}, { $pull: {..: { bookId: id } } })
Pull(lists, id) == [u \in DOMAIN lists |-> lists[u] \ {id}]

DeleteBookById(id, fault) ==
  /\ Quiescent
  /\ call' = [op |-> "deleteBookById", id |-> id, user |-> NoUser]
  /\ streams' = Idle
  /\ cb' = NoCb
  /\ UNCHANGED nextId
  /\ IF id \notin DOMAIN Book
     THEN /\ res' = <<Response(404, "Book not found")>>
          /\ UNCHANGED <<Book, Author, Category, Shop, blobs>>
     ELSE LET book == Book[id]
              owners == AuthorByName(book.author)
          IN \E stop \in {FirstRejected(book, fault)} :
             /\ Category' =
                  IF Resolved("category", stop) /\ book.category \in DOMAIN Category
                  THEN [Category EXCEPT ![book.category] = Without(@, id)]
                  ELSE Category
             /\ Author' =
                  IF Resolved("author", stop) /\ owners # {}
                  THEN LET a == CHOOSE x \in owners : TRUE
                       IN [Author EXCEPT ![a].books = Without(@, id)]
                  ELSE Author
             /\ Cart' = IF Resolved("cart", stop)
                        THEN Pull(Cart, id) ELSE Cart
             /\ Favorites' = IF Resolved("favorites", stop)
                             THEN Pull(Favorites, id)
                             ELSE Favorites
             /\ Order' = IF Resolved("order", stop)
                         THEN Pull(Order, id) ELSE Order
             /\ blobs' = blobs \ {PreviousBlob(book, s) : s \in {x \in Slots : Resolved(x, stop)}}
             /\ Book' = IF Resolved("record", stop) THEN Drop(Book, id) ELSE Book
             /\ res' = IF stop = "none"
                       THEN <<Response(200, "none")>>
                       ELSE <<Response(500, DeleteErr(book, stop, fault))>>

----------------------------------------------------------------------------
(* deleteAuthor *)

SlotOrder == <<"file", "cover", "sample">>

RECURSIVE SortedIds(_)
SortedIds(S) ==
  IF S = {} THEN <<>>
  ELSE LET m == CHOOSE x \in S : \A y \in S : x <= y
       IN <<m>> \o SortedIds(S \ {m})

BooksOf_BackReferences(name) ==
  SortedIds({b \in DOMAIN Book :
               \E a \in AuthorByName(name) : b \in Range(Author[a].books)})

\* book.find({ author: authorData.name }), line 583
BooksOf(name) == SortedIds({b \in DOMAIN Book : Book[b].author = name})

\* lines 585-609: the three deletions of one book, in order, up to the first that
\* rejects; `fault` is the slot whose deletion the environment makes fail
RECURSIVE DeleteAssets(_, _, _, _)
DeleteAssets(book, slots, store, fault) ==
  IF slots = <<>> THEN [blobs |-> store, err |-> "none"]
  ELSE LET key == PreviousBlob(book, Head(slots))
       IN IF DeleteRejects(store, key, Head(slots) = fault)
          THEN [blobs |-> store,
                err |-> IF key \notin store THEN "blobAbsent" ELSE "blobIO"]
          ELSE DeleteAssets(book, Tail(slots), store \ {key}, fault)

\* lines 584-612: the loop over the author's books; fault = <<book id, step>>
RECURSIVE Cascade(_, _, _, _)
Cascade(ids, B, store, fault) ==
  IF ids = <<>> THEN [Book |-> B, blobs |-> store, err |-> "none"]
  ELSE LET b == Head(ids)
           d == DeleteAssets(B[b], SlotOrder, store,
                             IF fault[1] = b THEN fault[2] ELSE "none")
       IN CASE d.err # "none" -> [Book |-> B, blobs |-> d.blobs, err |-> d.err]
            [] d.err = "none" /\ fault = <<b, "record">> ->
                 [Book |-> B, blobs |-> d.blobs, err |-> "persist"]
            [] OTHER -> Cascade(Tail(ids), Drop(B, b), d.blobs, fault)

NoFault == <<0, "none">>

DeleteAuthor(a, fault) ==
  /\ Quiescent
  /\ call' = [op |-> "deleteAuthor", id |-> a, user |-> NoUser]
  /\ streams' = Idle
  /\ cb' = NoCb
  /\ UNCHANGED <<Category, Shop, nextId>>
  /\ IF a \notin DOMAIN Author
     THEN /\ res' = <<Response(404, "Author not found")>>
          /\ UNCHANGED <<Book, Author, blobs>>
     ELSE \E c \in {Cascade(BooksOf(Author[a].name), Book, blobs, fault)} :
             /\ Book' = c.Book
             /\ blobs' = c.blobs
             /\ Author' = IF c.err = "none" THEN Drop(Author, a) ELSE Author
             /\ res' = IF c.err = "none"
                       THEN <<Response(200, "none")>>
                       ELSE <<Response(500, c.err)>>

----------------------------------------------------------------------------
(* updateBookById *)

NoBody == [price |-> Undefined, discountPercentage |-> Undefined,
           discountedPrice |-> Undefined, authorName |-> "", category |-> ""]
NoFiles == [s \in Slots |-> NoFile]

\* uploadFileToFirebase: file.originalname.replace(/\s+/g, "_").trim()
UploadName(original) == Trim(Sanitize(original))

\* one slot of lines 265-317: the old object's deletion and the new object's upload
\* run side by side; upFirst says which of the two the bucket serves first
ReplaceSlot(store, old, new, delFault, upFault, upFirst) ==
  IF upFirst
  THEN LET s1 == IF upFault THEN store ELSE store \cup {new}
           delOk == ~DeleteRejects(s1, old, delFault)
       IN [blobs |-> IF delOk THEN s1 \ {old} ELSE s1,
           deleted |-> delOk,
           err |-> IF ~delOk THEN (IF old \notin s1 THEN "blobAbsent" ELSE "blobIO")
                   ELSE IF upFault THEN "upload" ELSE "none"]
  ELSE LET delOk == ~DeleteRejects(store, old, delFault)
           s1 == IF delOk THEN store \ {old} ELSE store
       IN [blobs |-> IF upFault THEN s1 ELSE s1 \cup {new},
           deleted |-> delOk,
           err |-> IF ~delOk THEN (IF old \notin store THEN "blobAbsent" ELSE "blobIO")
                   ELSE IF upFault THEN "upload" ELSE "none"]

\* lines 261-321 over the slots the request brings a file for
RECURSIVE ReplaceAssets(_, _, _, _, _, _, _)
ReplaceAssets(book, files, slots, store, delFaults, upFaults, upFirsts) ==
  IF slots = <<>> THEN [blobs |-> store, errs |-> {}, deleted |-> {}]
  ELSE LET s == Head(slots)
           rest == ReplaceAssets(book, files, Tail(slots), store,
                                 delFaults, upFaults, upFirsts)
       IN IF files[s] = NoFile THEN rest
          ELSE LET r == ReplaceSlot(rest.blobs, PreviousBlob(book, s),
                                    BlobKey(Folder(s), UploadName(files[s])),
                                    s \in delFaults, s \in upFaults, s \in upFirsts)
               IN [blobs |-> r.blobs, errs |-> rest.errs \cup ({r.err} \ {"none"}),
                   deleted |-> rest.deleted \cup (IF r.deleted THEN {s} ELSE {})]

\* the write stream of uploadFileToFirebase for a slot: not opened, finished or failed
UploadOutcome(files, upFaults, s) ==
  IF files[s] = NoFile THEN "idle" ELSE IF s \in upFaults THEN "error" ELSE "finish"

\* the names the request's files are uploaded under
UploadNames(files) ==
  [s \in Slots |-> IF files[s] = NoFile THEN NoFile ELSE UploadName(files[s])]

\* Object.assign(book, {...req.body, originalPrice, discountedPrice}), lines 323-327
Assigned(book, body, files) ==
  LET originalPrice == IF body.price # Undefined THEN body.price ELSE book.price
      url(s) == IF files[s] = NoFile THEN book[Field(s)]
                ELSE SignedUrl(Folder(s), UploadName(files[s]))
  IN [price |-> IF body.price # Undefined THEN body.price ELSE book.price,
      discountPercentage |-> IF body.discountPercentage # Undefined
                             THEN body.discountPercentage
                             ELSE book.discountPercentage,
      originalPrice |-> originalPrice,
      discountedPrice |-> UpdateDiscountedPrice(originalPrice,
                            body.discountPercentage, book.discountPercentage),
      category |-> IF body.category # "" THEN body.category ELSE book.category,
      author |-> IF body.authorName # "" THEN body.authorName ELSE book.author,
      sourcePath |-> url("file"),
      coverImage |-> url("cover"),
      samplePdf |-> url("sample")]

\* book.save() moved in front of the awaits of lines 319-320
UpdateBookById_SaveBeforeAwait(id, body, files, delFaults, upFaults, upFirsts, saveFault) ==
  /\ Quiescent
  /\ call' = [op |-> "updateBookById", id |-> id, user |-> NoUser]
  /\ UNCHANGED <<Author, Category, Shop, nextId>>
  /\ IF id \notin DOMAIN Book
     THEN /\ res' = <<Response(404, "Book not found")>>
          /\ streams' = Idle
          /\ cb' = NoCb
          /\ UNCHANGED <<Book, blobs>>
     ELSE IF body.authorName # "" /\ AuthorByName(body.authorName) = {}
     THEN /\ res' = <<Response(404, "Author not found")>>
          /\ streams' = Idle
          /\ cb' = NoCb
          /\ UNCHANGED <<Book, blobs>>
     ELSE \E r \in {ReplaceAssets(Book[id], files, SlotOrder, blobs,
                                   delFaults, upFaults, upFirsts)} :
             /\ blobs' = r.blobs
             /\ streams' = [s \in Slots |-> UploadOutcome(files, upFaults, s)]
             /\ cb' = [NoCb EXCEPT !.names = UploadNames(files),
                                   !.deleted = r.deleted]
             /\ IF ~saveFault /\ ~CastRejects(Assigned(Book[id], body, files))
                THEN Book' = [Book EXCEPT ![id] = Assigned(Book[id], body, files)]
                ELSE UNCHANGED Book
             /\ res' = IF r.errs = {} /\ ~saveFault
                          /\ ~CastRejects(Assigned(Book[id], body, files))
                       THEN <<Response(200, "none")>>
                       ELSE <<Response(500, IF r.errs = {} THEN "persist"
                                            ELSE CHOOSE e \in r.errs : TRUE)>>

UpdateBookById(id, body, files, delFaults, upFaults, upFirsts, saveFault) ==
  /\ Quiescent
  /\ call' = [op |-> "updateBookById", id |-> id, user |-> NoUser]
  /\ UNCHANGED <<Author, Category, Shop, nextId>>
  /\ IF id \notin DOMAIN Book
     THEN /\ res' = <<Response(404, "Book not found")>>
          /\ streams' = Idle
          /\ cb' = NoCb
          /\ UNCHANGED <<Book, blobs>>
     ELSE IF body.authorName # "" /\ AuthorByName(body.authorName) = {}
     THEN /\ res' = <<Response(404, "Author not found")>>
          /\ streams' = Idle
          /\ cb' = NoCb
          /\ UNCHANGED <<Book, blobs>>
     ELSE \E r \in {ReplaceAssets(Book[id], files, SlotOrder, blobs,
                                   delFaults, upFaults, upFirsts)} :
             /\ blobs' = r.blobs
             /\ streams' = [s \in Slots |-> UploadOutcome(files, upFaults, s)]
             /\ cb' = [NoCb EXCEPT !.names = UploadNames(files),
                                   !.deleted = r.deleted]
             /\ IF r.errs = {} /\ ~saveFault /\ ~CastRejects(Assigned(Book[id], body, files))
                THEN /\ Book' = [Book EXCEPT ![id] = Assigned(Book[id], body, files)]
                     /\ res' = <<Response(200, "none")>>
                ELSE /\ UNCHANGED Book
                     /\ res' = <<Response(500, IF r.errs = {} THEN "persist"
                                               ELSE CHOOSE e \in r.errs : TRUE)>>

----------------------------------------------------------------------------
(* updateAuthor *)

AuthorFaults == {"none", "delete", "upload", "persist"}

\* the image is stored before the author is looked up
UpdateAuthor_UploadBeforeLookup(a, name, file, fault) ==
  /\ Quiescent
  /\ call' = [op |-> "updateAuthor", id |-> a, user |-> NoUser]
  /\ streams' = Idle
  /\ cb' = NoCb
  /\ UNCHANGED <<Book, Category, Shop, nextId>>
  /\ blobs' = IF file = NoFile THEN blobs
              ELSE blobs \cup {BlobKey("authors", Sanitize(file))}
  /\ IF a \notin DOMAIN Author
     THEN /\ res' = <<Response(404, "Author not found")>>
          /\ UNCHANGED Author
     ELSE /\ res' = <<Response(200, "none")>>
          /\ Author' = [Author EXCEPT
               ![a].name = IF name = "" THEN @ ELSE name,
               ![a].image = IF file = NoFile THEN @
                            ELSE SignedUrl("authors", Sanitize(file))]

\* updateAuthor, lines 511-570: the old image is deleted, then the new one is
\* stored, then the record is written
UpdateAuthor(a, name, file, fault) ==
  /\ Quiescent
  /\ call' = [op |-> "updateAuthor", id |-> a, user |-> NoUser]
  /\ streams' = Idle
  /\ cb' = NoCb
  /\ UNCHANGED <<Book, Category, Shop, nextId>>
  /\ IF a \notin DOMAIN Author
     THEN /\ res' = <<Response(404, "Author not found")>>
          /\ UNCHANGED <<Author, blobs>>
     ELSE LET old == BlobKey("authors", PreviousFileName(Author[a].image))
              new == BlobKey("authors", Sanitize(file))
              deletes == file # NoFile /\ Author[a].image # NoFile
              delOk == ~deletes \/ ~DeleteRejects(blobs, old, fault = "delete")
              upOk == file = NoFile \/ fault # "upload"
              s1 == IF deletes /\ delOk THEN blobs \ {old} ELSE blobs
          IN /\ blobs' = IF delOk /\ upOk /\ file # NoFile THEN s1 \cup {new} ELSE s1
             /\ IF delOk /\ upOk /\ fault # "persist"
                THEN /\ Author' = [Author EXCEPT
                          ![a].name = IF name = "" THEN @ ELSE name,
                          ![a].image = IF file = NoFile THEN @
                                       ELSE SignedUrl("authors", Sanitize(file))]
                     /\ res' = <<Response(200, "none")>>
                ELSE /\ UNCHANGED Author
                     /\ res' = <<Response(500,
                                  IF ~delOk THEN (IF old \notin blobs THEN "blobAbsent"
                                                  ELSE "blobIO")
                                  ELSE IF ~upOk THEN "upload" ELSE "persist")>>

----------------------------------------------------------------------------
(* getBooks, getAllBooks, getAllBookswithoutSource *)

DefaultPage == 1
DefaultLimit == 12

SortBys == {"default", "oldest", "newest", "on-sale",
            "price-low-to-high", "price-high-to-low"}

\* the quotient rounded down
Ceil_Floor(a, b) == a \div b

\* Math.ceil(a / b) on a >= 0, b >= 1
Ceil(a, b) == IF a % b = 0 THEN a \div b ELSE a \div b + 1

Min(a, b) == IF a <= b THEN a ELSE b

\* the filter without the discountPercentage condition of on-sale
Matches_NoSaleFilter(doc, q) ==
  /\ q.author # "" => doc.author = q.author
  /\ q.category # "" => doc.category = q.category
  /\ q.minPrice # Undefined => doc.discountedPrice >= q.minPrice
  /\ q.maxPrice # Undefined => doc.discountedPrice <= q.maxPrice

\* the filter object of lines 24-33 and 43, applied to one document
Matches(doc, q) ==
  /\ q.author # "" => doc.author = q.author
  /\ q.category # "" => doc.category = q.category
  /\ q.minPrice # Undefined => doc.discountedPrice >= q.minPrice
  /\ q.maxPrice # Undefined => doc.discountedPrice <= q.maxPrice
  /\ q.sortBy = "on-sale" => doc.discountPercentage > 0

Matching(q) == {b \in DOMAIN Book : Matches(Book[b], q)}

\* the sort object of lines 34-54 as a key to order by, ascending; ids grow with
\* createdAt, and no sort leaves the collection's order
SortKey(b, sortBy) ==
  CASE sortBy = "newest" -> 0 - b
    [] sortBy \in {"on-sale", "price-low-to-high"} -> Book[b].discountedPrice
    [] sortBy = "price-high-to-low" -> 0 - Book[b].discountedPrice
    [] OTHER -> b

\* the orders .sort(sort) may answer: documents with equal keys come in any order
RECURSIVE Sorted(_, _)
Sorted(S, sortBy) ==
  IF S = {} THEN {<<>>}
  ELSE LET least == {m \in S : \A x \in S : SortKey(m, sortBy) <= SortKey(x, sortBy)}
       IN UNION {{<<m>> \o t : t \in Sorted(S \ {m}, sortBy)} : m \in least}

\* .skip(skip).limit(Number(limit))
Page(order, skip, limit) == SubSeq(order, skip + 1, Min(skip + limit, Len(order)))

\* res.json(books): the documents answered and the fields each of them carries
Listing(fields, items) ==
  [status |-> 200, err |-> "none", fields |-> fields, items |-> items]

\* res.json({booksDataWithoutSourcePath, totalPages, currentPage}), lines 67-71
PagedListing(items, totalPages, currentPage) ==
  [status |-> 200, err |-> "none", fields |-> AllFields \ {"sourcePath"},
   items |-> items, totalPages |-> totalPages, currentPage |-> currentPage]

\* getBooks, lines 11-75
GetBooks(q) ==
  /\ Quiescent
  /\ call' = [op |-> "getBooks", id |-> 0, user |-> NoUser, query |-> q]
  /\ streams' = Idle
  /\ cb' = NoCb
  /\ LET page == IF q.page = Undefined THEN DefaultPage ELSE q.page
         limit == IF q.limit = Undefined THEN DefaultLimit ELSE q.limit
         totalBooks == Cardinality(Matching(q))
     IN \E order \in Sorted(Matching(q), q.sortBy) :
          res' = <<PagedListing(Page(order, (page - 1) * limit, limit),
                                Ceil(totalBooks, limit), page)>>
  /\ UNCHANGED <<Book, Author, Category, Shop, blobs, nextId>>

\* getAllBooks, lines 433-440
GetAllBooks ==
  /\ Quiescent
  /\ call' = [op |-> "getAllBooks", id |-> 0, user |-> NoUser]
  /\ streams' = Idle
  /\ cb' = NoCb
  /\ res' = <<Listing(AllFields, SortedIds(DOMAIN Book))>>
  /\ UNCHANGED <<Book, Author, Category, Shop, blobs, nextId>>

\* getAllBookswithoutSource, lines 442-449
GetAllBookswithoutSource ==
  /\ Quiescent
  /\ call' = [op |-> "getAllBookswithoutSource", id |-> 0, user |-> NoUser]
  /\ streams' = Idle
  /\ cb' = NoCb
  /\ res' = <<Listing(AllFields \ {"sourcePath"}, SortedIds(DOMAIN Book))>>
  /\ UNCHANGED <<Book, Author, Category, Shop, blobs, nextId>>

----------------------------------------------------------------------------
(* Requests *)

SameName(n) == [s \in Slots |-> n]
Spaced == <<"a", " ", " ", "b">>

CreateBody(a, c) ==
  [price |-> 20, discountPercentage |-> 50, authorName |-> a, category |-> c]

\* Upload scenario: createBook under every outcome of its streams and awaits
UploadBodies == {CreateBody(a, c) : a \in {"Ann"}, c \in {"c1", "c9"}}
UploadFiles == {SameName(<<"a">>), SameName(Spaced)}
BadFiles == {[SameName(<<"a">>) EXCEPT ![s] = NoFile] : s \in Slots}

Next ==
  \/ \E body \in UploadBodies, files \in UploadFiles \cup BadFiles :
        CreateBookRejected(body, files)
  \/ \E body \in UploadBodies, files \in UploadFiles : CreateBook(body, files)
  \/ \E fail \in HandlerFailures : BookStreamFinish(fail)
  \/ \E s \in Slots : StreamFinish(s)
  \/ \E s \in Slots : StreamError(s)
  \/ \E a \in {"a1"} : DeleteAuthor(a, NoFault)

Spec == Init /\ [][Next]_vars

\* Cascade scenario: uploads succeed; authors vary and every blob deletion may fail
CascadeBodies == {CreateBody(a, "c1") : a \in AuthorNames}
CascadeFiles == {SameName(<<"a">>), SameName(Spaced)}
RenameBodies == {[NoBody EXCEPT !.authorName = "Bob"]}
DeleteFaults == {"none", "file", "cover", "sample"}
CascadeFaults == {NoFault, <<2, "cover">>}

NextCascade ==
  \/ \E body \in CascadeBodies, files \in CascadeFiles : CreateBook(body, files)
  \/ BookStreamFinish("none")
  \/ \E s \in Slots : StreamFinish(s)
  \/ \E id \in BookIds, body \in RenameBodies :
        UpdateBookById(id, body, NoFiles, {}, {}, {}, FALSE)
  \/ \E id \in BookIds, fault \in DeleteFaults : DeleteBookById(id, fault)
  \/ \E a \in AuthorIds, fault \in CascadeFaults : DeleteAuthor(a, fault)

SpecCascade == Init /\ [][NextCascade]_vars

\* Shop scenario: carts and favorites vary over one author's books
ShopBodies == {CreateBody("Ann", c) : c \in CategoryTitles}
ShopFiles == {SameName(<<"a">>), SameName(Spaced)}

NextShop ==
  \/ \E body \in ShopBodies, files \in ShopFiles : CreateBook(body, files)
  \/ BookStreamFinish("none")
  \/ \E s \in Slots : StreamFinish(s)
  \/ \E id \in BookIds, fault \in {"none", "cover"} : DeleteBookById(id, fault)
  \/ DeleteAuthor("a1", NoFault)
  \/ \E b \in BookIds : AddToCart("u1", b)
  \/ \E b \in BookIds : AddFavorite("u2", b)

SpecShop == Init /\ [][NextShop]_vars

\* Orders scenario: the orders of two users vary, books are read and deleted
NextOrders ==
  \/ \E files \in ShopFiles : CreateBook(CreateBody("Ann", "c1"), files)
  \/ BookStreamFinish("none")
  \/ \E s \in Slots : StreamFinish(s)
  \/ \E id \in BookIds, fault \in {"none", "sample"} : DeleteBookById(id, fault)
  \/ \E id \in BookIds, user \in Users \cup {NoUser} : GetBookById(id, user)
  \/ \E u \in Users, b \in BookIds : PlaceOrder(u, b)

SpecOrders == Init /\ [][NextOrders]_vars

\* Pricing scenario: prices and discounts vary, given or left out
PriceBodies ==
  {[price |-> p, discountPercentage |-> d, authorName |-> "Ann", category |-> "c1"] :
     p \in Prices, d \in Percents \cup {Undefined}}
RepriceBodies ==
  {[NoBody EXCEPT !.price = p, !.discountPercentage = d, !.discountedPrice = x] :
     p \in Prices \cup {Undefined}, d \in Percents \cup {Undefined},
     x \in {Undefined, 1}}

NextPrice ==
  \/ \E body \in PriceBodies : CreateBook(body, SameName(<<"a">>))
  \/ BookStreamFinish("none")
  \/ \E s \in Slots : StreamFinish(s)
  \/ \E id \in BookIds, body \in RepriceBodies :
        UpdateBookById(id, body, NoFiles, {}, {}, {}, FALSE)

SpecPrice == Init /\ [][NextPrice]_vars

\* Query scenario: the catalogue is any one that createBook calls with the file
\* name "a" leave behind, and it is listed under every query
MaxCatalogue == 3
CatalogueBodies ==
  {[price |-> 20, discountPercentage |-> 0, authorName |-> "Ann", category |-> "c1"],
   [price |-> 40, discountPercentage |-> 50, authorName |-> "Ann", category |-> "c1"],
   [price |-> 20, discountPercentage |-> 50, authorName |-> "Bob", category |-> "c1"]}
Catalogues == UNION {[1..n -> CatalogueBodies] : n \in 0..MaxCatalogue}

\* the document createBook persists for a body and three files named "a"
CatalogueBook(body) ==
  [price |-> body.price,
   discountPercentage |-> OrElse(body.discountPercentage, 0),
   originalPrice |-> body.price,
   discountedPrice |-> CreateDiscountedPrice(body.price, body.discountPercentage),
   category |-> body.category,
   author |-> body.authorName,
   sourcePath |-> SignedUrl("books", <<"a">>),
   coverImage |-> SignedUrl("covers", <<"a">>),
   samplePdf |-> SignedUrl("samples", <<"a">>)]

\* author, category, minPrice and maxPrice of a query; page and limit of a query
NoFilter == <<"", "", Undefined, Undefined>>
Filters == {NoFilter, <<"Ann", "", Undefined, Undefined>>,
            <<"", "c2", Undefined, Undefined>>, <<"", "", 20, Undefined>>,
            <<"", "", Undefined, 10>>}
NoPaging == <<Undefined, Undefined>>
Pagings == {NoPaging, <<Undefined, 1>>, <<2, 1>>, <<3, 1>>, <<Undefined, 2>>, <<2, 2>>}
Query(f, s, p) ==
  [author |-> f[1], category |-> f[2], minPrice |-> f[3], maxPrice |-> f[4],
   sortBy |-> s, page |-> p[1], limit |-> p[2]]
PriceSorts == {"on-sale", "price-low-to-high", "price-high-to-low"}
Queries ==
  {Query(NoFilter, s, NoPaging) : s \in SortBys}
    \cup {Query(f, s, NoPaging) : f \in Filters \ {NoFilter}, s \in {"on-sale"}}
    \cup {Query(<<"", "", 20, Undefined>>, s, NoPaging) : s \in PriceSorts}
    \cup {Query(NoFilter, s, p) : s \in {"default", "price-low-to-high"}, p \in Pagings}
    \cup {Query(f, "default", <<2, 1>>) : f \in Filters}

InitQuery ==
  \E c \in Catalogues :
    /\ Book = [b \in DOMAIN c |-> CatalogueBook(c[b])]
    /\ Author = [a \in AuthorIds |->
                  [name |-> NameOf(a),
                   books |-> SortedIds({b \in DOMAIN c : c[b].authorName = NameOf(a)}),
                   image |-> NoFile]]
    /\ Category = [t \in CategoryTitles |->
                    SortedIds({b \in DOMAIN c : c[b].category = t})]
    /\ Cart = [u \in Users |-> {}]
    /\ Favorites = [u \in Users |-> {}]
    /\ Order = [u \in Users |-> {}]
    /\ blobs = IF c = <<>> THEN {} ELSE {BlobKey(Folder(s), <<"a">>) : s \in Slots}
    /\ nextId = Len(c) + 1
    /\ call = [op |-> "none", id |-> 0, user |-> NoUser]
    /\ res = <<>>
    /\ streams = Idle
    /\ cb = NoCb

NextQuery ==
  \/ \E q \in Queries : GetBooks(q)
  \/ GetAllBooks
  \/ GetAllBookswithoutSource

SpecQuery == InitQuery /\ [][NextQuery]_vars

\* Assets scenario: the files of a Book are replaced, and every deletion, upload
\* and save of an update may fail
Renamed == <<"a", "_", "b">>
CoverOnly(n) == [NoFiles EXCEPT !["cover"] = n]
SourceAndCover(n) == [NoFiles EXCEPT !["file"] = n, !["cover"] = n]
UpdateRequest(files, delFaults, upFaults, upFirsts, saveFault) ==
  [files |-> files, delFaults |-> delFaults, upFaults |-> upFaults,
   upFirsts |-> upFirsts, saveFault |-> saveFault]
AssetUpdates ==
  {UpdateRequest(CoverOnly(<<"a">>), {}, {}, {}, FALSE),
   UpdateRequest(CoverOnly(<<"a">>), {}, {}, {"cover"}, FALSE),
   UpdateRequest(CoverOnly(Renamed), {"cover"}, {}, {}, FALSE),
   UpdateRequest(CoverOnly(Renamed), {}, {"cover"}, {}, FALSE),
   UpdateRequest(CoverOnly(Renamed), {}, {}, {}, TRUE),
   UpdateRequest(SourceAndCover(Renamed), {}, {}, {}, FALSE),
   UpdateRequest(SourceAndCover(Renamed), {"file"}, {}, {}, FALSE)}

NextAssets ==
  \/ CreateBook(CreateBody("Ann", "c1"), SameName(<<"a">>))
  \/ BookStreamFinish("none")
  \/ \E s \in Slots : StreamFinish(s)
  \/ \E id \in BookIds, u \in AssetUpdates :
        UpdateBookById(id, NoBody, u.files, u.delFaults, u.upFaults, u.upFirsts,
                       u.saveFault)

SpecAssets == Init /\ [][NextAssets]_vars

\* Lookup scenario: every handler that starts with findById is called with ids
\* that are there and ids that are not
NoAuthor == "a9"

NextLookup ==
  \/ CreateBook(CreateBody("Ann", "c1"), SameName(<<"a">>))
  \/ BookStreamFinish("none")
  \/ \E s \in Slots : StreamFinish(s)
  \/ \E id \in BookIds : GetBookById(id, NoUser)
  \/ \E id \in BookIds :
        UpdateBookById(id, [NoBody EXCEPT !.price = 40], CoverOnly(Renamed),
                       {}, {}, {}, FALSE)
  \/ \E id \in BookIds : DeleteBookById(id, "none")
  \/ \E a \in {"a2", NoAuthor}, fault \in AuthorFaults :
        UpdateAuthor(a, "", <<"a">>, fault)
  \/ \E a \in {"a2", NoAuthor} : DeleteAuthor(a, NoFault)

SpecLookup == Init /\ [][NextLookup]_vars

\* Ownership scenario: every bucket call and every save succeeds; the files of
\* different requests may have one sanitized name
OwnedFiles == {SameName(<<"a">>), SameName(Spaced), SameName(Renamed)}

NextOwnership ==
  \/ \E files \in OwnedFiles : CreateBook(CreateBody("Ann", "c1"), files)
  \/ BookStreamFinish("none")
  \/ \E s \in Slots : StreamFinish(s)
  \/ \E id \in BookIds, n \in {<<"a">>, Renamed}, upFirsts \in {{}, {"cover"}} :
        UpdateBookById(id, NoBody, CoverOnly(n), {}, {}, upFirsts, FALSE)
  \/ \E id \in BookIds : DeleteBookById(id, "none")
  \/ DeleteAuthor("a1", NoFault)

SpecOwnership == Init /\ [][NextOwnership]_vars

----------------------------------------------------------------------------
(* Claims *)

\* C1: every persisted Book has salePrice = listPrice * (1 - discountPercent/100)
\* for its own persisted listPrice and discountPercent, after any createBook and
\* updateBook calls
C1_SalePriceDerived ==
  \A b \in DOMAIN Book :
    /\ Book[b].discountedPrice # NaN
    /\ Book[b].originalPrice = Book[b].price
    /\ 100 * Book[b].discountedPrice = Book[b].price * (100 - Book[b].discountPercentage)

\* C2: if any one of the three uploads of a createBook fails, the request creates
\* no Book record and no Category or Author list gains a book id
C2_NoRecordWhenUploadFails ==
  (call.op = "createBook" /\ \E s \in Slots : streams[s] = "error")
    => /\ cb.newId = 0
       /\ \A c \in DOMAIN Category : nextId - 1 \notin Range(Category[c])
       /\ \A a \in DOMAIN Author : nextId - 1 \notin Range(Author[a].books)

\* C3: after completed operations, a book id is in an Author's back-reference list
\* exactly when it is a persisted Book whose author equals that Author's name
C3_AuthorListsInSync ==
  Quiescent =>
    \A a \in DOMAIN Author : \A b \in BookIds :
      (b \in Range(Author[a].books))
        <=> (b \in DOMAIN Book /\ Book[b].author = Author[a].name)

\* C4: after completed operations, a book id is in a Category's list exactly when
\* it is a persisted Book whose category equals that Category's title
C4_CategoryListsInSync ==
  Quiescent =>
    \A c \in DOMAIN Category : \A b \in BookIds :
      (b \in Range(Category[c])) <=> (b \in DOMAIN Book /\ Book[b].category = c)

\* C5: no Cart and no Favorites line item references a Book whose record is gone
C5_NoDanglingLineItems ==
  \A u \in Users : Cart[u] \subseteq DOMAIN Book /\ Favorites[u] \subseteq DOMAIN Book

\* the bucket keys whose retrieval URL a Book record holds
AllBlobKeys == {BlobKey(Folder(s), Sanitize(n)) : s \in Slots, n \in FileNames}
AssetKeys(book) ==
  {k \in AllBlobKeys :
     \E s \in Slots : k[1] = Folder(s) /\ SignedUrl(k[1], k[2]) = book[Field(s)]}

ListBooks == DOMAIN Book
ListAuthors == DOMAIN Author

Succeeded(r) == Len(r) = 1 /\ r[1].status = 200

\* C6: a successful deleteBook(id) leaves the id out of its Category's list, its
\* Author's list, every Cart and every Favorites list, its three blobs out of the
\* bucket and its record out of the Book collection
C6_DeleteBookPost ==
  [][\A id \in DOMAIN Book :
       (call'.op = "deleteBookById" /\ call'.id = id /\ Succeeded(res'))
         => /\ id \notin DOMAIN Book'
            /\ Book[id].category \in DOMAIN Category'
                 => id \notin Range(Category'[Book[id].category])
            /\ \A a \in DOMAIN Author' :
                 Author'[a].name = Book[id].author => id \notin Range(Author'[a].books)
            /\ \A u \in Users : id \notin Cart'[u] /\ id \notin Favorites'[u]
            /\ Cardinality(AssetKeys(Book[id])) = 3
            /\ AssetKeys(Book[id]) \cap blobs' = {}]_vars

C6_Witness ==
  /\ call.op = "deleteBookById" /\ Succeeded(res)
  /\ call.id \notin DOMAIN Book
  /\ \E b \in DOMAIN Book : b \in Cart["u1"] /\ AssetKeys(Book[b]) \subseteq blobs

\* C7: a Book record is removed by a delete operation only when that operation has
\* deleted all three blobs the Book referenced, and a deleteBook in which a blob
\* deletion fails ends with an error and leaves the record
C7_NoRecordGoneWithBlobsLeft ==
  [][/\ \A b \in DOMAIN Book :
          b \notin DOMAIN Book'
            => /\ Cardinality(AssetKeys(Book[b])) = 3
               /\ AssetKeys(Book[b]) \subseteq blobs
               /\ AssetKeys(Book[b]) \cap blobs' = {}
     /\ (call'.op = "deleteBookById" /\ ~Succeeded(res'))
          => (call'.id \in DOMAIN Book => call'.id \in DOMAIN Book')]_vars

C7_Witness ==
  /\ call.op = "deleteAuthor" /\ res = <<Response(500, "blobIO")>>
  /\ \E b \in BookIds : b < nextId /\ b \notin DOMAIN Book
  /\ \E b \in DOMAIN Book : AssetKeys(Book[b]) \cap blobs # {}
                             /\ ~(AssetKeys(Book[b]) \subseteq blobs)

\* C8: re-running deleteBook(id) after a run that failed partway (some blobs gone,
\* the record still there), with a bucket that no longer fails, succeeds and
\* removes the record
C8_RetryCompletes ==
  [][(/\ call.op = "deleteBookById" /\ res = <<Response(500, "blobIO")>>
      /\ call.id \in DOMAIN Book
      /\ ~(AssetKeys(Book[call.id]) \subseteq blobs)
      /\ call'.op = "deleteBookById" /\ call'.id = call.id
      /\ res'[1].err \notin {"blobIO", "persist"})
       => (Succeeded(res') /\ call.id \notin DOMAIN Book')]_vars

\* C9: a successful deleteAuthor(id) removes every Book whose author is the Author's
\* name, with its three blobs, and the Author record goes only when none of those
\* Books is left; the listings afterwards hold neither the Author nor the Books
C9_DeleteAuthorPost ==
  [][\A a \in DOMAIN Author :
       /\ (call'.op = "deleteAuthor" /\ call'.id = a /\ Succeeded(res'))
            => /\ a \notin ListAuthors'
               /\ \A b \in DOMAIN Book :
                    Book[b].author = Author[a].name
                      => b \notin ListBooks' /\ AssetKeys(Book[b]) \cap blobs' = {}
       /\ a \notin DOMAIN Author'
            => \A b \in DOMAIN Book' : Book'[b].author # Author[a].name]_vars

C9_Witness ==
  /\ call.op = "deleteAuthor" /\ Succeeded(res)
  /\ call.id \notin DOMAIN Author
  /\ nextId = 3 /\ Book = <<>>

\* C10: getBook on an existing Book answers the source field exactly when a
\* requester is present and one of the requester's Orders holds the book; the
\* cover and sample fields are answered in every case
C10_SourceOnlyForBuyers ==
  [][(/\ call'.op = "getBookById" /\ Succeeded(res')
      /\ UNCHANGED <<Book, Author, Category, Shop, blobs, nextId>>)
       => /\ ("sourcePath" \in res'[1].fields)
               <=> (call'.user \in Users /\ call'.id \in Order[call'.user])
          /\ {"coverImage", "samplePdf"} \subseteq res'[1].fields
          /\ call'.id \in DOMAIN Book]_vars

C10_Witness ==
  /\ call.op = "getBookById" /\ Succeeded(res)
  /\ "sourcePath" \notin res[1].fields
  /\ call.user \in Users
  /\ \E u \in Users : call.id \in Order[u]

C10_WitnessBuyer ==
  /\ call.op = "getBookById" /\ Succeeded(res)
  /\ "sourcePath" \in res[1].fields

ListingOps == {"getBooks", "getAllBooks", "getAllBookswithoutSource"}

\* C11: no item that a Book listing operation returns carries the source asset
\* field, whatever the catalogue, filter, sort, page and limit
C11_ListingsHideSource ==
  (call.op \in ListingOps /\ res[1].items # <<>>) => "sourcePath" \notin res[1].fields

CreateRefusals == {"TypeError", "Author not found", "Category not found"}

\* C12: a createBook that lacks one of the three files, or names an Author or a
\* Category that does not exist, leaves the Book collection, the Author and
\* Category lists and the bucket as they were, and opens no upload
C12_RefusedCreateWritesNothing ==
  [][(call'.op = "createBook" /\ res' # <<>> /\ res'[1].err \in CreateRefusals)
       => /\ UNCHANGED <<Book, Author, Category, blobs>>
          /\ \A s \in Slots : streams'[s] = "idle"]_vars

C12_Witness ==
  /\ call.op = "createBook"
  /\ res = <<Response(404, "Category not found")>>
  /\ Book # <<>> /\ blobs # {}
  /\ \A s \in Slots : streams[s] = "idle"

\* C13: a createBook that lacks one of the source, cover and sample files is
\* answered with a 4xx status
C13_MissingFileIs4xx ==
  [][\A body \in UploadBodies, files \in BadFiles :
       CreateBookRejected(body, files) => res'[1].status \in 400..499]_vars

\* C14: a createBook without discountPercentage persists, when its source file is
\* stored, a Book with discountPercentage 0 and discountedPrice equal to its price
C14_NoDiscountMeansListPrice ==
  [][(/\ call.op = "createBook" /\ cb.pct = Undefined
      /\ streams["file"] = "open" /\ streams'["file"] = "finish")
       => /\ nextId \in DOMAIN Book'
          /\ Book'[nextId].discountPercentage = 0
          /\ Book'[nextId].discountedPrice = Book'[nextId].price]_vars

\* the bucket holds the object a Book's URL of a slot names
Stored(book, slot, store) ==
  \E k \in store : k[1] = Folder(slot) /\ SignedUrl(k[1], k[2]) = book[Field(slot)]

\* C15: a successful updateBook that brings a cover file only deletes the previous
\* cover blob and persists a coverImage URL that differs from the old one; the
\* sourcePath and samplePdf URLs and their blobs stay as they were
C15_CoverReplaced ==
  [][(/\ call'.op = "updateBookById" /\ Succeeded(res')
      /\ {s \in Slots : cb'.names[s] # NoFile} = {"cover"})
       => /\ Book'[call'.id].coverImage # Book[call'.id].coverImage
          /\ ~Stored(Book[call'.id], "cover", blobs')
          /\ \A s \in {"file", "sample"} :
               /\ Book'[call'.id][Field(s)] = Book[call'.id][Field(s)]
               /\ Stored(Book[call'.id], s, blobs')
                    <=> Stored(Book[call'.id], s, blobs)]_vars

\* C19: updateBook writes the Book record only when every deletion and every
\* upload it issued has gone through; when a deletion or an upload fails, the call
\* is answered with an error and the persisted record is what it was
C19_SaveAfterAllAssets ==
  [][(call'.op = "updateBookById" /\ call'.id \in DOMAIN Book)
       => LET issued == {s \in Slots : cb'.names[s] # NoFile}
              failed == {s \in issued : s \notin cb'.deleted \/ streams'[s] = "error"}
          IN /\ Book' # Book => (Succeeded(res') /\ failed = {})
             /\ failed # {} => (Book' = Book /\ res'[1].status = 500)]_vars

C19_Witness ==
  /\ call.op = "updateBookById"
  /\ res # <<>> /\ res[1].status = 500 /\ res[1].err \in {"upload", "blobIO"}
  /\ call.id \in DOMAIN Book
  /\ BlobKey("covers", <<"a", "_", "b">>) \in blobs
  /\ Book[call.id].coverImage = SignedUrl("covers", <<"a">>)

\* C16: getBook, updateBook, deleteBook, updateAuthor and deleteAuthor, called with
\* an id that no record has, answer 404 and leave every collection and the bucket
\* as they were
C16_MissingIdChangesNothing ==
  [][/\ (call'.op \in {"getBookById", "updateBookById", "deleteBookById"}
         /\ call'.id \notin DOMAIN Book)
          => /\ res' = <<Response(404, "Book not found")>>
             /\ UNCHANGED <<Book, Author, Category, Shop, blobs, nextId>>
     /\ (call'.op \in {"updateAuthor", "deleteAuthor"}
         /\ call'.id \notin DOMAIN Author)
          => /\ res' = <<Response(404, "Author not found")>>
             /\ UNCHANGED <<Book, Author, Category, Shop, blobs, nextId>>]_vars

C16_Witness ==
  /\ call.op = "updateAuthor" /\ call.id = "a2"
  /\ "a2" \notin DOMAIN Author
  /\ res = <<Response(404, "Author not found")>>
  /\ Book # <<>>
  /\ BlobKey("authors", <<"a">>) \notin blobs

C16_WitnessBook ==
  /\ call.op = "deleteBookById" /\ call.id \notin DOMAIN Book
  /\ res = <<Response(404, "Book not found")>>
  /\ Book # <<>> /\ blobs # {}

\* C20: after completed createBook, updateBook, deleteBook and deleteAuthor calls,
\* every asset URL of a persisted Book names an object the bucket holds
C20_ReferencesResolve ==
  Quiescent => \A b \in DOMAIN Book : \A s \in Slots : Stored(Book[b], s, blobs)

Max(a, b) == IF a >= b THEN a ELSE b

\* the page and the limit a query asks for
PageOf(q) == IF q.page = Undefined THEN 1 ELSE q.page
LimitOf(q) == IF q.limit = Undefined THEN 12 ELSE q.limit

\* C17: with n matching Books, page p >= 1 and limit l >= 1, getBooks answers
\* totalPages = ceil(n / l), echoes p, and answers the items at the positions
\* (p-1)*l .. min(p*l, n) - 1 of the matching Books in the order of the sort
C17_Pagination ==
  [][call'.op = "getBooks" =>
       LET q == call'.query
           r == res'[1]
           p == PageOf(q)
           l == LimitOf(q)
           M == Matching(q)
           n == Cardinality(M)
           got == Range(r.items)
           key(b) == SortKey(b, q.sortBy)
       IN /\ r.totalPages * l >= n /\ (r.totalPages - 1) * l < n
          /\ r.currentPage = p
          /\ Len(r.items) = Max(0, Min(p * l, n) - (p - 1) * l)
          /\ Cardinality(got) = Len(r.items) /\ got \subseteq M
          /\ \A i, j \in 1..Len(r.items) : i < j => key(r.items[i]) <= key(r.items[j])
          /\ \E before \in SUBSET (M \ got) :
               /\ Cardinality(before) = Min((p - 1) * l, n)
               /\ \A x \in before, y \in M \ before : key(x) <= key(y)
               /\ \A y \in got, z \in M \ (before \cup got) : key(y) <= key(z)]_vars

C17_Witness ==
  /\ call.op = "getBooks" /\ call.query.limit = 2 /\ call.query.page = 2
  /\ Cardinality(Matching(call.query)) = 3
  /\ res[1].totalPages = 2 /\ res[1].currentPage = 2 /\ Len(res[1].items) = 1

\* the Books that pass the author, category and price filters of a query
Passing(q) ==
  {b \in DOMAIN Book :
     /\ q.author = "" \/ Book[b].author = q.author
     /\ q.category = "" \/ Book[b].category = q.category
     /\ q.minPrice = Undefined \/ Book[b].discountedPrice >= q.minPrice
     /\ q.maxPrice = Undefined \/ Book[b].discountedPrice <= q.maxPrice}

\* C18: sorted on-sale, getBooks answers the Books that pass the other filters and
\* have discountPercentage > 0, in non-decreasing discountedPrice; sorted
\* price-low-to-high (price-high-to-low) it answers the Books that pass the filters
\* in non-decreasing (non-increasing) discountedPrice
C18_SaleAndPriceSorts ==
  [][(call'.op = "getBooks"
      /\ call'.query.sortBy \in {"on-sale", "price-low-to-high", "price-high-to-low"})
       => LET q == call'.query
              items == res'[1].items
              wanted == IF q.sortBy = "on-sale"
                        THEN {b \in Passing(q) : Book[b].discountPercentage > 0}
                        ELSE Passing(q)
              price(i) == Book[items[i]].discountedPrice
          IN /\ Range(items) \subseteq wanted
             /\ (PageOf(q) = 1 /\ LimitOf(q) >= Cardinality(wanted))
                  => (Range(items) = wanted /\ Len(items) = Cardinality(wanted))
             /\ \A i, j \in 1..Len(items) :
                  i < j => IF q.sortBy = "price-high-to-low"
                           THEN price(i) >= price(j)
                           ELSE price(i) <= price(j)]_vars

C18_Witness ==
  /\ call.op = "getBooks" /\ call.query.sortBy = "on-sale"
  /\ Len(res[1].items) = 2
  /\ Book[res[1].items[1]].discountedPrice < Book[res[1].items[2]].discountedPrice
  /\ res[1].items[1] > res[1].items[2]
  /\ \E b \in DOMAIN Book : Book[b].discountPercentage = 0

\* every event of the three write streams of the request has been handled
StreamsSettled == \A s \in Slots : streams[s] \in {"finish", "error"}

\* C21: a createBook that passed validation ends with exactly one answer to the
\* caller, the created Book or an error: once its three streams have finished or
\* failed and the finish handler has run, which leaves nothing of the request to
\* happen, the caller has one answer
C21_CreateAnswered ==
  (call.op = "createBook" /\ StreamsSettled) => Len(res) = 1

====
